---------------------------- MODULE Spec2Model ----------------------------
(***************************************************************************)
(* Model of the Deezer authorization object of libmusic_streamer           *)
(* (src/src/auth/mod.rs, src/src/auth/deezer/mod.rs).                      *)
(*                                                                         *)
(* Strings are sequences of one-character strings; an index into a Rust    *)
(* string (a byte offset, counted from 0) is an offset into the sequence.  *)
(* Option<T> is <<>> (None) or <<x>> (Some(x)).                            *)
(***************************************************************************)
EXTENDS Integers, Sequences, FiniteSets

VARIABLES
    auth,   \* the AuthDeezer object: [status, token, expires]
    last,   \* the last call made: [op, ret, io]; in full in SpecSessions
    flow,   \* the caller's position in the documented authorization flow
    input,  \* the argument a pure parsing function is applied to (SpecFn)
    peer    \* a second AuthDeezer object of the same program (SpecSessions)

vars == <<auth, last, flow, input, peer>>

-----------------------------------------------------------------------------
(* Bounds of the input sets.                                               *)

MaxBodyParts == 3
MaxRespParts == 2

-----------------------------------------------------------------------------
(* The record of a call, then Option, Result and string primitives.        *)

\* a call as its caller sees it: the operation, what it returned, and the
\* requests it made
Called(op, ret, io) == [op |-> op, ret |-> ret, io |-> io]

None == <<>>
Some(x) == <<x>>

Ok(v) == [kind |-> "Ok", val |-> v]
Err(msg) == [kind |-> "Err", val |-> msg]
Panic == [kind |-> "Panic", val |-> "byte index out of range"]

\* pat occurs in s at byte offset i
MatchAt(s, pat, i) ==
    /\ i >= 0
    /\ i + Len(pat) <= Len(s)
    /\ \A k \in 1..Len(pat) : s[i + k] = pat[k]

\* pat occurs somewhere in s
Occurs(s, pat) == \E i \in 0..Len(s) : MatchAt(s, pat, i)

RECURSIVE findFrom(_, _, _)
findFrom(s, pat, i) ==
    IF i + Len(pat) > Len(s) THEN None
    ELSE IF MatchAt(s, pat, i) THEN Some(i)
    ELSE findFrom(s, pat, i + 1)

\* str::find: the offset of the first occurrence, scanning from the left
find(s, pat) == findFrom(s, pat, 0)

RECURSIVE rfindFrom(_, _, _)
rfindFrom(s, pat, i) ==
    IF i < 0 THEN None
    ELSE IF MatchAt(s, pat, i) THEN Some(i)
    ELSE rfindFrom(s, pat, i - 1)

\* str::rfind: the offset of the last occurrence, scanning from the right
rfind(s, pat) == rfindFrom(s, pat, Len(s) - Len(pat))

\* s[a..b] is defined when a <= b <= len; otherwise the slice panics
SliceOk(s, a, b) == a <= b /\ b <= Len(s)
Slice(s, a, b) == SubSeq(s, a + 1, b)

-----------------------------------------------------------------------------
(* String constants of the source.                                         *)

token_pattern == <<"a","c","c","e","s","s","_","t","o","k","e","n","=">>
expires_pattern == <<"&","e","x","p","i","r","e","s","=">>
code_pattern == <<"?","c","o","d","e","=">>

authorize_base_uri ==
    <<"h","t","t","p","s",":","/","/","c","o","n","n","e","c","t",".",
      "d","e","e","z","e","r",".","c","o","m","/","o","a","u","t","h","/",
      "a","u","t","h",".","p","h","p","?","a","p","p","_","i","d","=">>
redirect_uri_param == <<"&","r","e","d","i","r","e","c","t","_","u","r","i","=">>
perms_param ==
    <<"&","p","e","r","m","s","=","b","a","s","i","c","_","a","c","c","e","s","s">>

token_base_uri ==
    <<"h","t","t","p","s",":","/","/","c","o","n","n","e","c","t",".",
      "d","e","e","z","e","r",".","c","o","m","/","o","a","u","t","h","/",
      "a","c","c","e","s","s","_","t","o","k","e","n",".","p","h","p","?",
      "a","p","p","_","i","d","=">>
secret_param == <<"&","s","e","c","r","e","t","=">>
code_param == <<"&","c","o","d","e","=">>

\* println!("response: {}", body)
response_prefix == <<"r","e","s","p","o","n","s","e",":"," ">>

ErrNoToken == "Could not find access token part in response"
ErrRead == "Can't read the response. Something is really wrong."
ErrSend == "Can't send request to the deezer server"

-----------------------------------------------------------------------------
(* The strings a transport answers with and a caller passes in.            *)

RECURSIVE Concats(_, _)
\* every concatenation of at most n fragments of F
Concats(F, n) ==
    IF n = 0 THEN {<<>>}
    ELSE LET P == Concats(F, n - 1) IN P \cup {p \o f : p \in P, f \in F}

BodyFrags == {token_pattern, expires_pattern, <<"X">>, <<"3">>}
\* the well-formed body "access_token=XYZ&expires=3600"
ExampleBody ==
    token_pattern \o <<"X","Y","Z">> \o expires_pattern \o <<"3","6","0","0">>
Bodies == Concats(BodyFrags, MaxBodyParts) \cup {ExampleBody}

RespFrags == {code_pattern, <<"?">>, <<"x">>}
\* the redirect of the documentation example, with a shortened code
ExampleResponse ==
    <<"h","t","t","p",":","/","/","e","x","a","m","p","l","e",".","c","o","m",
      "/","t","e","s","t","_","p","a","t","h","/">>
        \o code_pattern \o <<"f","r","e","5","4">>
Responses == Concats(RespFrags, MaxRespParts) \cup {ExampleResponse}

-----------------------------------------------------------------------------
(* AuthorizationStatus and the AuthDeezer object.                          *)

AuthorizationStatus ==
    {"Nothing", "UserAuthentication", "TokenAquired", "AuthorizationCompleted"}

\* position of a status in the enum's declaration order
StatusRank(s) ==
    CASE s = "Nothing" -> 0
      [] s = "UserAuthentication" -> 1
      [] s = "TokenAquired" -> 2
      [] s = "AuthorizationCompleted" -> 3

AuthDeezer_new == [status |-> "Nothing", token |-> <<>>, expires |-> <<>>]

\* extract_access_token taking the first "&expires=" instead of the last
extract_access_token_first_expires(response) ==
    LET begin == find(response, token_pattern)
        end == find(response, expires_pattern)
    IN  IF begin # None /\ end # None
        THEN LET from == begin[1] + Len(token_pattern)
                 to == end[1]
             IN  IF SliceOk(response, from, to)
                 THEN Ok(<<Slice(response, from, to),
                           Slice(response, to + Len(expires_pattern), Len(response))>>)
                 ELSE Panic
        ELSE Err(ErrNoToken)

extract_access_token(response) ==
    LET begin == find(response, token_pattern)
        end == rfind(response, expires_pattern)
    IN  IF begin # None /\ end # None
        THEN LET from == begin[1] + Len(token_pattern)
                 to == end[1]
             IN  IF SliceOk(response, from, to)
                 THEN Ok(<<Slice(response, from, to),
                           Slice(response, to + Len(expires_pattern), Len(response))>>)
                 ELSE Panic
        ELSE Err(ErrNoToken)

\* extract_access_token tabulated over the bodies a transport delivers
ExtractTable == [b \in Bodies |-> extract_access_token(b)]
extract_access_token_of(body) ==
    IF body \in Bodies THEN ExtractTable[body] ELSE extract_access_token(body)

status(self) == [self |-> self, ret |-> self.status]

get_authorize_link_resets(self, app_id, redirect_uri) ==
    LET complete_uri == authorize_base_uri \o app_id \o redirect_uri_param
                            \o redirect_uri \o perms_param
    IN  [self |-> [status |-> "UserAuthentication", token |-> <<>>,
                   expires |-> <<>>],
         ret |-> complete_uri]

get_authorize_link_email(self, app_id, redirect_uri) ==
    LET complete_uri == authorize_base_uri \o app_id \o redirect_uri_param
                            \o redirect_uri \o perms_param \o <<",","e","m","a","i","l">>
    IN  [self |-> [self EXCEPT !.status = "UserAuthentication"],
         ret |-> complete_uri]
get_authorize_link(self, app_id, redirect_uri) ==
    LET complete_uri == authorize_base_uri \o app_id \o redirect_uri_param
                            \o redirect_uri \o perms_param
    IN  [self |-> [self EXCEPT !.status = "UserAuthentication"],
         ret |-> complete_uri]

\* parse_response_code that records the received code in the status
parse_response_code_advances(self, response) ==
    LET option == rfind(response, code_pattern)
    IN  IF option # None
        THEN [self |-> [self EXCEPT !.status = "CodeReceived"],
              ret |-> Some(Slice(response, option[1] + 6, Len(response)))]
        ELSE [self |-> self, ret |-> None]

\* parse_response_code taking the first "?code=" instead of the last
parse_response_code_first(self, response) ==
    LET option == find(response, code_pattern)
    IN  [self |-> self,
         ret |-> IF option # None
                 THEN Some(Slice(response, option[1] + 6, Len(response)))
                 ELSE None]

parse_response_code(self, response) ==
    LET option == rfind(response, code_pattern)
    IN  [self |-> self,
         ret |-> IF option # None
                 THEN Some(Slice(response, option[1] + 6, Len(response)))
                 ELSE None]

save_token_keeps_completed(self, token) ==
    [self |-> [self EXCEPT !.token = token,
                           !.status = IF self.status = "AuthorizationCompleted"
                                      THEN self.status ELSE "TokenAquired"],
     ret |-> <<>>]

save_token(self, token) ==
    [self |-> [self EXCEPT !.token = token, !.status = "TokenAquired"],
     ret |-> <<>>]

\* the else branch of `if let Ok(mut res) = client.get(..).send()`
authenticate_send_failed(self) ==
    [self |-> self, ret |-> Err(ErrSend), out |-> <<>>]

\* authenticate_read_failed with the status already marked completed
authenticate_read_failed_completed(self) ==
    [self |-> [self EXCEPT !.status = "AuthorizationCompleted"],
     ret |-> Err(ErrRead), out |-> <<>>]

\* read_to_string returned an error
authenticate_read_failed(self) ==
    [self |-> self, ret |-> Err(ErrRead), out |-> <<>>]

\* authenticate_body_read that drops the token it held before parsing
authenticate_body_read_once(self, body) ==
    LET parsed == extract_access_token_of(body)
        printed == <<response_prefix \o body>>
    IN  CASE parsed.kind = "Panic" ->
               [self |-> self, ret |-> Panic, out |-> printed]
          [] parsed.kind = "Err" ->
               [self |-> self, ret |-> parsed, out |-> printed]
          [] self.status = "AuthorizationCompleted" ->
               [self |-> self, ret |-> Err(ErrNoToken), out |-> printed]
          [] OTHER ->
               [self |-> [status |-> "AuthorizationCompleted",
                          token |-> parsed.val[1],
                          expires |-> parsed.val[2]],
                ret |-> Ok(<<>>), out |-> printed]

authenticate_body_read_clears_first(self, body) ==
    LET parsed == extract_access_token_of(body)
        cleared == [self EXCEPT !.token = <<>>]
        printed == <<response_prefix \o body>>
    IN  CASE parsed.kind = "Panic" ->
               [self |-> self, ret |-> Panic, out |-> printed]
          [] parsed.kind = "Err" ->
               [self |-> cleared, ret |-> parsed, out |-> printed]
          [] parsed.kind = "Ok" ->
               [self |-> [save_token(self, parsed.val[1]).self
                             EXCEPT !.expires = parsed.val[2],
                                    !.status = "AuthorizationCompleted"],
                ret |-> Ok(<<>>), out |-> printed]

\* authenticate_body_read that stores the token and forgets the last
\* assignment of the status
authenticate_body_read_no_status(self, body) ==
    LET parsed == extract_access_token_of(body)
        printed == <<response_prefix \o body>>
    IN  CASE parsed.kind = "Panic" ->
               [self |-> self, ret |-> Panic, out |-> printed]
          [] parsed.kind = "Err" ->
               [self |-> self, ret |-> parsed, out |-> printed]
          [] parsed.kind = "Ok" ->
               [self |-> [save_token(self, parsed.val[1]).self
                             EXCEPT !.expires = parsed.val[2]],
                ret |-> Ok(<<>>), out |-> printed]

\* the body was read: println!, try!(extract_access_token), save_token,
\* expires, status
authenticate_body_read(self, body) ==
    LET parsed == extract_access_token_of(body)
        printed == <<response_prefix \o body>>
    IN  CASE parsed.kind = "Panic" ->
               [self |-> self, ret |-> Panic, out |-> printed]
          [] parsed.kind = "Err" ->
               [self |-> self, ret |-> parsed, out |-> printed]
          [] parsed.kind = "Ok" ->
               [self |-> [save_token(self, parsed.val[1]).self
                             EXCEPT !.expires = parsed.val[2],
                                    !.status = "AuthorizationCompleted"],
                ret |-> Ok(<<>>), out |-> printed]

authenticate_application_retry(self, app_id, app_secret, code, transport) ==
    LET complete_uri == token_base_uri \o app_id \o secret_param \o app_secret
                            \o code_param \o code
        r == IF transport.send
             THEN IF transport.read
                  THEN authenticate_body_read(self, transport.body)
                  ELSE authenticate_read_failed(self)
             ELSE authenticate_send_failed(self)
    IN  [self |-> r.self, ret |-> r.ret,
         requests |-> IF transport.send THEN <<complete_uri>>
                      ELSE <<complete_uri, complete_uri>>,
         out |-> r.out]

\* transport: what client.get(uri).send() and read_to_string produce;
\* requests: the uris handed to client.get(..).send(); out: the lines printed
authenticate_application(self, app_id, app_secret, code, transport) ==
    LET complete_uri == token_base_uri \o app_id \o secret_param \o app_secret
                            \o code_param \o code
        r == IF transport.send
             THEN IF transport.read
                  THEN authenticate_body_read(self, transport.body)
                  ELSE authenticate_read_failed(self)
             ELSE authenticate_send_failed(self)
    IN  [self |-> r.self, ret |-> r.ret, requests |-> <<complete_uri>>,
         out |-> r.out]

get_token_take(self) ==
    [self |-> [self EXCEPT !.token = <<>>], ret |-> self.token]
get_token_placeholder(self) ==
    [self |-> self,
     ret |-> IF self.token = <<>> THEN <<"n","o","n","e">> ELSE self.token]
get_token(self) == [self |-> self, ret |-> self.token]

-----------------------------------------------------------------------------
(* The other inputs of the calls.                                          *)

AppIds == {<<"1","1","1">>, <<"7">>}
RedirectUris == {<<"h","t","t","p",":","/","/","e","x","a","m","p","l","e",".","c","o","m">>,
                 <<"u">>}
Secrets == {<<"s","3","c">>}
Tokens == {<<>>, <<"t","o","k","e","n">>}
DefaultCode == <<"c","0">>

Transports ==
    {[send |-> FALSE, read |-> FALSE, body |-> <<>>],
     [send |-> TRUE, read |-> FALSE, body |-> <<>>]}
    \cup {[send |-> TRUE, read |-> TRUE, body |-> b] : b \in Bodies}

\* what a stubbed transport reports of one request: whether it was sent,
\* whether the body was read, and which markers the body held
MarkersTable ==
    [b \in Bodies |-> [token_marker |-> Occurs(b, token_pattern),
                       expires_marker |-> Occurs(b, expires_pattern)]]
TransportView(transport) ==
    LET body_read == transport.send /\ transport.read
        markers == MarkersTable[transport.body]
    IN  [send |-> transport.send,
         read |-> body_read,
         token_marker |-> body_read /\ markers.token_marker,
         expires_marker |-> body_read /\ markers.expires_marker]
\* one view for each request a call made
RECURSIVE RequestViews(_, _)
RequestViews(requests, transport) ==
    IF requests = <<>> THEN <<>>
    ELSE <<TransportView(transport)>>
             \o RequestViews(Tail(requests), transport)

\* the codes a caller passes on: the one just extracted, or another
CodesAfter(l) ==
    {DefaultCode} \cup
    (IF l.op = "parse_response_code" /\ l.ret # None THEN {l.ret[1]} ELSE {})

\* a panic unwinds the calling thread: no further call is made on the object
Panicked == last.op = "authenticate_application" /\ last.ret.kind = "Panic"

-----------------------------------------------------------------------------
(* The object's life: construction, then any sequence of calls.            *)
(* last.io lists the requests the call made, as the transport saw them.    *)

Init ==
    /\ auth = AuthDeezer_new
    /\ last = Called("new", <<>>, <<>>)
    /\ flow = "new"
    /\ input = <<>>
    /\ peer = AuthDeezer_new

Status ==
    /\ ~Panicked
    /\ LET r == status(auth)
       IN  /\ auth' = r.self
           /\ last' = Called("status", r.ret, <<>>)
    /\ flow' = "other"
    /\ UNCHANGED <<input, peer>>

GetAuthorizeLink ==
    /\ ~Panicked
    /\ \E app_id \in AppIds, redirect_uri \in RedirectUris :
          LET r == get_authorize_link(auth, app_id, redirect_uri)
          IN  /\ auth' = r.self
              /\ last' = Called("get_authorize_link", r.ret, <<>>)
    /\ flow' = IF flow = "new" THEN "linked" ELSE "other"
    /\ UNCHANGED <<input, peer>>

ParseResponseCode ==
    /\ ~Panicked
    /\ \E response \in Responses :
          LET r == parse_response_code(auth, response)
          IN  /\ auth' = r.self
              /\ last' = Called("parse_response_code", r.ret, <<>>)
              /\ flow' = IF flow = "linked" /\ r.ret # None THEN "coded" ELSE "other"
    /\ UNCHANGED <<input, peer>>

AuthenticateApplication ==
    /\ ~Panicked
    /\ \E app_id \in AppIds, app_secret \in Secrets, code \in CodesAfter(last),
          transport \in Transports :
          LET r == authenticate_application(auth, app_id, app_secret, code, transport)
          IN  /\ auth' = r.self
              /\ last' = Called("authenticate_application", r.ret,
                                RequestViews(r.requests, transport))
              /\ flow' = IF /\ flow = "coded"
                            /\ last.ret = Some(code)
                            /\ transport.send /\ transport.read
                         THEN "exchanged" ELSE "other"
    /\ UNCHANGED <<input, peer>>

SaveToken ==
    /\ ~Panicked
    /\ \E token \in Tokens :
          LET r == save_token(auth, token)
          IN  /\ auth' = r.self
              /\ last' = Called("save_token", r.ret, <<>>)
    /\ flow' = "other"
    /\ UNCHANGED <<input, peer>>

GetToken ==
    /\ ~Panicked
    /\ LET r == get_token(auth)
       IN  /\ auth' = r.self
           /\ last' = Called("get_token", r.ret, <<>>)
    /\ flow' = "other"
    /\ UNCHANGED <<input, peer>>

Next ==
    \/ Status
    \/ GetAuthorizeLink
    \/ ParseResponseCode
    \/ AuthenticateApplication
    \/ SaveToken
    \/ GetToken

Spec == Init /\ [][Next]_vars

-----------------------------------------------------------------------------
(* The parsing functions alone: each is applied once to an input drawn     *)
(* from the responses and bodies.                                          *)

InitFn ==
    /\ auth = AuthDeezer_new
    /\ last = Called("new", <<>>, <<>>)
    /\ flow = "new"
    /\ input \in Responses \cup Bodies
    /\ peer = AuthDeezer_new

ApplyParseResponseCode ==
    /\ last.op = "new"
    /\ last' = Called("parse_response_code",
                      parse_response_code(auth, input).ret, <<>>)
    /\ UNCHANGED <<auth, flow, input, peer>>

ApplyExtractAccessToken ==
    /\ last.op = "new"
    /\ last' = Called("extract_access_token",
                      extract_access_token(input), <<>>)
    /\ UNCHANGED <<auth, flow, input, peer>>

NextFn ==
    \/ ApplyParseResponseCode
    \/ ApplyExtractAccessToken

SpecFn == InitFn /\ [][NextFn]_vars

-----------------------------------------------------------------------------
(* Two objects in one program, each built by AuthDeezer::new and owned by  *)
(* its caller: auth is session 1, peer is session 2.  last records the     *)
(* call in full: the session it was made on, that session before the call, *)
(* the arguments, the result, the lines printed and the requests sent.     *)

Sessions == {1, 2}
session(i) == IF i = 1 THEN auth ELSE peer

\* the bodies the token endpoint answers with: the documented one, one with
\* an empty expiry, one without markers, one with the markers out of order
SessionBodies ==
    {ExampleBody,
     token_pattern \o <<"X">> \o expires_pattern,
     <<"X">>,
     expires_pattern \o token_pattern}
SessionTransports ==
    {[send |-> FALSE, read |-> FALSE, body |-> <<>>],
     [send |-> TRUE, read |-> FALSE, body |-> <<>>]}
    \cup {[send |-> TRUE, read |-> TRUE, body |-> b] : b \in SessionBodies}
SessionResponses == {ExampleResponse, <<"x">>}

\* a method writes through its receiver (&self, &mut self) and nowhere else
write_back_everywhere(i, j, old, new) == new
write_back(i, j, old, new) == IF i = j THEN new ELSE old

Call(i, op, args, r, out, requests) ==
    /\ auth' = write_back(i, 1, auth, r.self)
    /\ peer' = write_back(i, 2, peer, r.self)
    /\ last' = [op |-> op, on |-> i, before |-> session(i), args |-> args,
                ret |-> r.ret, out |-> out, requests |-> requests]
    /\ UNCHANGED <<flow, input>>

InitSessions ==
    /\ auth = AuthDeezer_new
    /\ peer = AuthDeezer_new
    /\ last = [op |-> "new", on |-> 0, before |-> AuthDeezer_new,
               args |-> <<>>, ret |-> <<>>, out |-> <<>>, requests |-> <<>>]
    /\ flow = "new"
    /\ input = <<>>

SessionStatus ==
    /\ ~Panicked
    /\ \E i \in Sessions :
          Call(i, "status", <<>>, status(session(i)), <<>>, <<>>)

SessionGetAuthorizeLink ==
    /\ ~Panicked
    /\ \E i \in Sessions, app_id \in AppIds, redirect_uri \in RedirectUris :
          Call(i, "get_authorize_link", <<app_id, redirect_uri>>,
               get_authorize_link(session(i), app_id, redirect_uri),
               <<>>, <<>>)

SessionParseResponseCode ==
    /\ ~Panicked
    /\ \E i \in Sessions, response \in SessionResponses :
          Call(i, "parse_response_code", <<response>>,
               parse_response_code(session(i), response), <<>>, <<>>)

SessionAuthenticateApplication ==
    /\ ~Panicked
    /\ \E i \in Sessions, app_id \in AppIds, app_secret \in Secrets,
          transport \in SessionTransports :
          LET r == authenticate_application(session(i), app_id, app_secret,
                                            DefaultCode, transport)
          IN  Call(i, "authenticate_application",
                   <<app_id, app_secret, DefaultCode, transport>>,
                   r, r.out, r.requests)

SessionSaveToken ==
    /\ ~Panicked
    /\ \E i \in Sessions, token \in Tokens :
          Call(i, "save_token", <<token>>, save_token(session(i), token),
               <<>>, <<>>)

SessionGetToken ==
    /\ ~Panicked
    /\ \E i \in Sessions :
          Call(i, "get_token", <<>>, get_token(session(i)), <<>>, <<>>)

NextSessions ==
    \/ SessionStatus
    \/ SessionGetAuthorizeLink
    \/ SessionParseResponseCode
    \/ SessionAuthenticateApplication
    \/ SessionSaveToken
    \/ SessionGetToken

SpecSessions == InitSessions /\ [][NextSessions]_vars

-----------------------------------------------------------------------------
(* Properties.                                                             *)

\* the offsets at which pat occurs in s
Occurrences(s, pat) == {i \in 0..Len(s) : MatchAt(s, pat, i)}
Max(S) == CHOOSE x \in S : \A y \in S : y <= x
Min(S) == CHOOSE x \in S : \A y \in S : x <= y

IsAuthenticate(l) == l.op = "authenticate_application"

\* C1: when authenticate_application cannot send the request or cannot read
\* the body, it returns an error and status, token and expiry are exactly
\* what they were before the call.
C1_TransportFailureKeepsState ==
    [][(IsAuthenticate(last') /\ (~last'.io[1].send \/ ~last'.io[1].read))
          => (last'.ret.kind = "Err" /\ auth' = auth)]_vars

\* a read failure met by an object that already holds a token
C1_Witness ==
    /\ IsAuthenticate(last)
    /\ last.io[1].send /\ ~last.io[1].read
    /\ last.ret = Err(ErrRead)
    /\ auth.token # <<>>
    /\ auth.status = "TokenAquired"

\* C2: when the body read by authenticate_application lacks a marker, the
\* call returns the parse error and status, token and expiry are unchanged.
C2_ParseFailureKeepsState ==
    [][(/\ IsAuthenticate(last')
        /\ last'.io[1].read
        /\ (~last'.io[1].token_marker \/ ~last'.io[1].expires_marker))
          => (last'.ret = Err(ErrNoToken) /\ auth' = auth)]_vars

\* a body with "access_token=" and no "&expires=" met by a completed object
C2_Witness ==
    /\ IsAuthenticate(last)
    /\ last.io[1].read
    /\ last.io[1].token_marker /\ ~last.io[1].expires_marker
    /\ last.ret = Err(ErrNoToken)
    /\ auth.status = "AuthorizationCompleted"
    /\ auth.token # <<>>

\* the values a token or an expiry takes in a body "access_token=T&expires=E"
FieldValues ==
    {<<>>, <<"X","Y","Z">>, <<"3","6","0","0">>} \cup BodyFrags

WellFormedBody(T, E) == token_pattern \o T \o expires_pattern \o E

\* this step is the exchange of the code just extracted, answered with body
ExchangeWith(body) ==
    \E app_id \in AppIds, app_secret \in Secrets :
       LET transport == [send |-> TRUE, read |-> TRUE, body |-> body]
           r == authenticate_application(auth, app_id, app_secret,
                                         last.ret[1], transport)
       IN  /\ auth' = r.self
           /\ last' = Called("authenticate_application", r.ret,
                             RequestViews(r.requests, transport))

\* C3 as stated: from a new object, get_authorize_link, parse_response_code
\* on a redirect holding a code c, then authenticate_application(c) answered
\* with "access_token=T&expires=E" ends with status AuthorizationCompleted,
\* token T and expiry E, for every T and E.
C3_RoundTripAnyFields ==
    [][(flow = "coded" /\ flow' = "exchanged")
          => \A T \in FieldValues, E \in FieldValues :
                (WellFormedBody(T, E) \in Bodies
                    /\ ExchangeWith(WellFormedBody(T, E)))
                   => /\ auth'.status = "AuthorizationCompleted"
                      /\ get_token(auth').ret = T
                      /\ auth'.expires = E]_vars

\* C3 (amended): the same round trip ends with status
\* AuthorizationCompleted, token T and expiry E provided E does not itself
\* contain "&expires=".
C3_RoundTrip ==
    [][(flow = "coded" /\ flow' = "exchanged")
          => \A T \in FieldValues, E \in FieldValues :
                (/\ ~Occurs(E, expires_pattern)
                 /\ WellFormedBody(T, E) \in Bodies
                 /\ ExchangeWith(WellFormedBody(T, E)))
                   => /\ last'.ret = Ok(<<>>)
                      /\ auth'.status = "AuthorizationCompleted"
                      /\ get_token(auth').ret = T
                      /\ auth'.expires = E]_vars

\* the round trip ended on the body "access_token=XYZ&expires=3600"
C3_Witness ==
    /\ flow = "exchanged"
    /\ last.ret = Ok(<<>>)
    /\ auth = [status |-> "AuthorizationCompleted",
               token |-> <<"X","Y","Z">>, expires |-> <<"3","6","0","0">>]

\* C4: a non-empty token implies that the status is TokenAquired or
\* AuthorizationCompleted.
C4_TokenImpliesAcquired ==
    auth.token # <<>> => StatusRank(auth.status) >= StatusRank("TokenAquired")

\* C5: status AuthorizationCompleted implies a non-empty token and a
\* non-empty expiry.
C5_CompletedImpliesTokenAndExpiry ==
    auth.status = "AuthorizationCompleted"
        => (auth.token # <<>> /\ auth.expires # <<>>)

\* C6: get_authorize_link moves the status from Nothing to UserAuthentication
\* and leaves a status that is already UserAuthentication or later unchanged.
C6_AuthorizeLinkNeverRegresses ==
    [][last'.op = "get_authorize_link"
          => auth'.status = IF auth.status = "Nothing"
                            THEN "UserAuthentication" ELSE auth.status]_vars

\* C7: once the status is AuthorizationCompleted no call changes it.
C7_CompletedIsTerminal ==
    [][auth.status = "AuthorizationCompleted"
          => auth'.status = "AuthorizationCompleted"]_vars

C9_ParseCodeLastOccurrence ==
    last.op = "parse_response_code"
        => LET occ == Occurrences(input, code_pattern)
           IN  IF occ = {}
               THEN last.ret = None
               ELSE last.ret =
                       Some(SubSeq(input, Max(occ) + Len(code_pattern) + 1,
                                   Len(input)))

\* a response with two "?code=" was parsed
C9_Witness ==
    /\ last.op = "parse_response_code"
    /\ Cardinality(Occurrences(input, code_pattern)) >= 2
    /\ last.ret # None

\* C10: when the first "access_token=" ends at or before the start of the
\* last "&expires=", extract_access_token returns the text between them as
\* the token and the text after the last "&expires=" as the expiry; and
\* "access_token=XYZ&expires=3600" yields ("XYZ", "3600").
C10_ExtractBetweenMarkers ==
    last.op = "extract_access_token"
        => LET tok == Occurrences(input, token_pattern)
               exp == Occurrences(input, expires_pattern)
           IN  /\ (/\ tok # {} /\ exp # {}
                   /\ Min(tok) + Len(token_pattern) <= Max(exp))
                      => /\ last.ret.kind = "Ok"
                         /\ last.ret.val =
                              <<SubSeq(input, Min(tok) + Len(token_pattern) + 1,
                                       Max(exp)),
                                SubSeq(input, Max(exp) + Len(expires_pattern) + 1,
                                       Len(input))>>
               /\ input = ExampleBody
                      => /\ last.ret.kind = "Ok"
                         /\ last.ret.val = <<<<"X","Y","Z">>, <<"3","6","0","0">>>>

\* a body with two "&expires=" after its "access_token=" was parsed
C10_Witness ==
    /\ last.op = "extract_access_token"
    /\ Cardinality(Occurrences(input, expires_pattern)) >= 2
    /\ Occurs(input, token_pattern)
    /\ last.ret.kind = "Ok"

\* C11: extract_access_token returns the parse error, and does not abort,
\* for every body in which "access_token=" is absent, "&expires=" is absent,
\* or the first "access_token=" ends after the start of the last "&expires=".
C11_MalformedBodyIsParseError ==
    last.op = "extract_access_token"
        => LET tok == Occurrences(input, token_pattern)
               exp == Occurrences(input, expires_pattern)
           IN  (\/ tok = {} \/ exp = {}
                \/ Min(tok) + Len(token_pattern) > Max(exp))
                  => last.ret = Err(ErrNoToken)


\* C12: no text a call emits, printed line or error message, holds the access
\* token stored in a session or the application secret passed to the call:
\* the printed lines contain neither, and an error message is one of the
\* fixed texts.
C12_NoSensitiveOutput ==
    last.op = "authenticate_application"
        => LET sensitive == ({auth.token, peer.token} \ {<<>>})
                                \cup {last.args[2]}
           IN  /\ \A k \in 1..Len(last.out) :
                     \A v \in sensitive : ~Occurs(last.out[k], v)
               /\ last.ret.kind = "Err"
                     => last.ret.val \in {ErrNoToken, ErrRead, ErrSend}


\* C13: a newly created object has status Nothing, an empty token and an
\* empty expiry, and get_token called while the token field is empty
\* returns the empty string.
C13_NewIsEmpty ==
    [][/\ last.op = "new"
            => auth = [status |-> "Nothing", token |-> <<>>, expires |-> <<>>]
       /\ (last'.op = "get_token" /\ auth.token = <<>>) => last'.ret = <<>>
      ]_vars

\* get_token answered with the empty string on an object that was used
\* (a link was built) but never given a token
C13_Witness ==
    /\ last.op = "get_token"
    /\ last.ret = <<>>
    /\ auth = [status |-> "UserAuthentication", token |-> <<>>,
               expires |-> <<>>]


C15_OneRequestPerCall ==
    IsAuthenticate(last)
        => /\ Len(last.requests) = 1
           /\ last.requests[1] =
                 <<"h","t","t","p","s",":","/","/","c","o","n","n","e","c",
                   "t",".","d","e","e","z","e","r",".","c","o","m","/","o",
                   "a","u","t","h","/","a","c","c","e","s","s","_","t","o",
                   "k","e","n",".","p","h","p">>
                 \o <<"?","a","p","p","_","i","d","=">> \o last.args[1]
                 \o <<"&","s","e","c","r","e","t","=">> \o last.args[2]
                 \o <<"&","c","o","d","e","=">> \o last.args[3]

\* a call whose request could not be sent returned the send error after
\* that one request
C15_Witness ==
    /\ IsAuthenticate(last)
    /\ last.ret = Err(ErrSend)
    /\ ~last.args[4].send
    /\ Len(last.requests) = 1

\* C16: a call of status or of get_token leaves status, token and expiry as
\* they were, and returns the status, respectively the token, held when it
\* was called.
C16_AccessorsReadOnly ==
    [][/\ last'.op = "status"
            => auth' = auth /\ last'.ret = auth.status
       /\ last'.op = "get_token"
            => auth' = auth /\ last'.ret = auth.token
      ]_vars

\* get_token returned the token of a completed exchange, and the token and
\* the expiry are still held
C16_Witness ==
    /\ last.op = "get_token"
    /\ last.ret = <<"X","Y","Z">>
    /\ auth = [status |-> "AuthorizationCompleted",
               token |-> <<"X","Y","Z">>,
               expires |-> <<"3","6","0","0">>]


\* C17: with two objects, a call made on one of them, whatever the call and
\* whatever its outcome, leaves the status, token and expiry of the other
\* object unchanged.
C17_SessionsIndependent ==
    [][/\ last'.on = 1 => peer' = peer
       /\ last'.on = 2 => auth' = auth
      ]_vars

\* an exchange just succeeded on the first object while the second holds a
\* saved token and no expiry
C17_Witness ==
    /\ IsAuthenticate(last)
    /\ last.on = 1
    /\ last.ret = Ok(<<>>)
    /\ auth = [status |-> "AuthorizationCompleted",
               token |-> <<"X","Y","Z">>,
               expires |-> <<"3","6","0","0">>]
    /\ peer = [status |-> "TokenAquired",
               token |-> <<"t","o","k","e","n">>,
               expires |-> <<>>]


\* C18: authenticate_application called on an object whose status is already
\* AuthorizationCompleted, and answered with a body whose first
\* "access_token=" ends at or before its last "&expires=", returns Ok, stores
\* the token and the expiry of that body in place of the old ones, and leaves
\* the status AuthorizationCompleted.
C18_ExchangeAgainOverwrites ==
    (/\ IsAuthenticate(last)
     /\ last.before.status = "AuthorizationCompleted"
     /\ last.args[4].send /\ last.args[4].read)
        => LET body == last.args[4].body
               tok == Occurrences(body, token_pattern)
               exp == Occurrences(body, expires_pattern)
           IN  (/\ tok # {} /\ exp # {}
                /\ Min(tok) + Len(token_pattern) <= Max(exp))
                  => /\ last.ret = Ok(<<>>)
                     /\ session(last.on) =
                          [status |-> "AuthorizationCompleted",
                           token |-> Slice(body,
                                           Min(tok) + Len(token_pattern),
                                           Max(exp)),
                           expires |-> Slice(body,
                                             Max(exp) + Len(expires_pattern),
                                             Len(body))]

\* an object that had completed an exchange with token X and an empty
\* expiry exchanged again and now holds XYZ and 3600
C18_Witness ==
    /\ IsAuthenticate(last)
    /\ last.on = 1
    /\ last.before = [status |-> "AuthorizationCompleted",
                      token |-> <<"X">>, expires |-> <<>>]
    /\ last.ret = Ok(<<>>)
    /\ auth = [status |-> "AuthorizationCompleted",
               token |-> <<"X","Y","Z">>,
               expires |-> <<"3","6","0","0">>]


\* C19: after save_token(t) the object holds t and its status is
\* TokenAquired, whatever it held before, and a get_token that follows the
\* save_token on the same object returns t.
C19_SaveThenGet ==
    [][/\ last'.op = "save_token"
            => LET post == IF last'.on = 1 THEN auth' ELSE peer'
               IN  /\ post.token = last'.args[1]
                   /\ post.status = "TokenAquired"
       /\ (/\ last.op = "save_token"
           /\ last'.op = "get_token"
           /\ last'.on = last.on)
            => last'.ret = last.args[1]
      ]_vars

\* get_token returned the saved token on an object whose expiry shows that
\* it had completed an exchange before the token was saved
C19_Witness ==
    /\ last.op = "get_token"
    /\ last.on = 2
    /\ last.ret = <<"t","o","k","e","n">>
    /\ peer = [status |-> "TokenAquired",
               token |-> <<"t","o","k","e","n">>,
               expires |-> <<"3","6","0","0">>]


\* C20: the token changes only in a save_token and in an
\* authenticate_application that returns Ok, and the expiry changes only in
\* an authenticate_application that returns Ok; get_authorize_link and
\* parse_response_code change neither, and save_token keeps the expiry.
C20_TokenAndExpiryWriters ==
    [][/\ auth'.token # auth.token
            => \/ last'.op = "save_token"
               \/ (IsAuthenticate(last') /\ last'.ret = Ok(<<>>))
       /\ auth'.expires # auth.expires
            => (IsAuthenticate(last') /\ last'.ret = Ok(<<>>))
       /\ last'.op \in {"get_authorize_link", "parse_response_code"}
            => auth'.token = auth.token /\ auth'.expires = auth.expires
       /\ last'.op = "save_token" => auth'.expires = auth.expires
      ]_vars

\* a link was built on an object that holds a saved token and the expiry of
\* an earlier exchange: both are still there
C20_Witness ==
    /\ last.op = "get_authorize_link"
    /\ auth = [status |-> "UserAuthentication",
               token |-> <<"t","o","k","e","n">>,
               expires |-> <<"3","6","0","0">>]

=============================================================================
